---- MODULE Spec2Model ----
(***************************************************************************)
(* A model of the LC-3 virtual machine of src/lc3.c: the image loader, the *)
(* fetch-decode-execute loop of main with one action per opcode and per    *)
(* trap service, the keyboard hook of mem_read and the host's standard     *)
(* input, terminal mode and interrupt signal.                              *)
(*                                                                         *)
(* Words are uint16_t: every assignment to a uint16_t truncates modulo     *)
(* 2^16 (Trunc16).  memory[] is a zero-initialised global array of         *)
(* MEMORY_MAX words; it is held as a function on the indices that were     *)
(* written so far, every other index reading 0 (MemAt).                    *)
(***************************************************************************)
EXTENDS Integers, Sequences, FiniteSets, TLC

\* ---------------------------------------------------------------- bounds
\* image files on the command line (argc - 1)
MaxImages == 1
\* bytes that standard input delivers during the session
MaxInput == 1
\* instructions executed in one session
MaxSteps == 6
\* words read beyond memory[] before a stray read finds a zero word
MaxOOB == 1

\* ------------------------------------------------------------- constants
R_R0 == 0
R_R7 == 7
R_PC == 8
R_COND == 9
R_COUNT == 10

OP_BR == 0
OP_ADD == 1
OP_LD == 2
OP_ST == 3
OP_JSR == 4
OP_AND == 5
OP_LDR == 6
OP_STR == 7
OP_RTI == 8
OP_NOT == 9
OP_LDI == 10
OP_STI == 11
OP_JMP == 12
OP_RES == 13
OP_LEA == 14
OP_TRAP == 15

FL_POS == 1
FL_ZRO == 2
FL_NEG == 4

TRAP_GETC == \h20
TRAP_OUT == \h21
TRAP_PUTS == \h22
TRAP_IN == \h23
TRAP_PUTSP == \h24
TRAP_HALT == \h25

MR_KBSR == \hFE00
MR_KBDR == \hFE02

MEMORY_MAX == 65536
PC_START == \h3000

\* what getchar() returns at end of input
EOF == -1

\* ------------------------------------------------------------ arithmetic
\* conversion of an int to uint16_t
Trunc16(v) == v % 65536

\* conversion of an int to char as an 8-bit pattern
Trunc8(v) == v % 256

RECURSIVE BitAnd(_, _)
\* a & b on non-negative ints
BitAnd(a, b) ==
    IF a = 0 \/ b = 0 THEN 0
    ELSE (a % 2) * (b % 2) + 2 * BitAnd(a \div 2, b \div 2)

RECURSIVE BitOr(_, _)
\* a | b on non-negative ints
BitOr(a, b) ==
    IF a = 0 THEN b
    ELSE IF b = 0 THEN a
    ELSE (IF a % 2 = 1 \/ b % 2 = 1 THEN 1 ELSE 0) + 2 * BitOr(a \div 2, b \div 2)

RECURSIVE Pow2(_)
\* 1 << n
Pow2(n) == IF n = 0 THEN 1 ELSE 2 * Pow2(n - 1)

\* x >> n
Shr(x, n) == x \div Pow2(n)

\* sign_extend(x, bit_count): x |= (0xFFFF << bit_count) when bit
\* bit_count-1 of x is set, the result truncated to uint16_t
sign_extend(x, bit_count) ==
    IF BitAnd(Shr(x, bit_count - 1), 1) = 1
    THEN Trunc16(BitOr(x, 65535 * Pow2(bit_count)))
    ELSE x

\* swap16(x): (x << 8) | (x >> 8), returned as uint16_t
swap16(x) == Trunc16(BitOr(x * 256, Shr(x, 8)))

\* ---------------------------------------------------------------- memory
\* memory[i] for an index inside the array
MemAt(m, i) == IF i \in DOMAIN m THEN m[i] ELSE 0

\* memory[i] = val
MemSet(m, i, val) == [a \in (DOMAIN m) \cup {i} |-> IF a = i THEN val ELSE m[a]]

\* the index that a uint16_t addr parameter selects in memory[]
Addr16(addr) == Trunc16(addr)

\* mem_write storing only the low byte of val
mem_write_lowbyte(m, addr, val) == MemSet(m, Addr16(addr), Trunc8(val))

\* mem_write(addr, val): both parameters are uint16_t
mem_write(m, addr, val) == MemSet(m, Addr16(addr), Trunc16(val))

\* ----------------------------------------------------------------- state
VARIABLES
    argv,        \* the image files named on the command line, in order
    argi,        \* images loaded so far (j - 1 in main's loading loop)
    memory,      \* memory[]
    reg,         \* reg[]: R0..R7, reg[R_PC], reg[R_COND]
    running,     \* main's flag of the run loop
    proc,        \* where the process is: "load", "loop", or how it ended
    tty,         \* terminal settings in force: "cooked" (original) or "raw"
    stdin,       \* standard input: fd (bytes not yet read), buf (stdio's buffer)
    closed,      \* standard input is at end of file once fd is drained
    charSigned,  \* whether plain char is signed in this build
    steps,       \* instructions executed
    last,        \* the step just taken: its kind, reg[] before it, the word fetched,
                 \* and the same of the step before it (was)
    acc,         \* the indices of memory[] the step just taken read or wrote
    stored       \* the word that the latest ST, STI or STR to each address stored

vars == <<argv, argi, memory, reg, running, proc, tty, stdin, closed,
          charSigned, steps, last, acc, stored>>

\* ----------------------------------------------------------- image files
RECURSIVE BigEndian(_)
\* the bytes of an image file holding the words ws, high byte first
BigEndian(ws) ==
    IF ws = <<>> THEN <<>>
    ELSE <<Head(ws) \div 256, Head(ws) % 256>> \o BigEndian(Tail(ws))

\* an image file with its origin and words; ok = FALSE: fopen fails
File(origin, ws) == [ok |-> TRUE, bytes |-> BigEndian(<<origin>> \o ws)]

\* a path that cannot be opened
Missing == [ok |-> FALSE, bytes |-> <<>>]

\* a uint16_t as fread stores it from two bytes of the file (little-endian host)
Native16(b0, b1) == b0 + 256 * b1

\* the uint16_t origin of read_image_file
ImageOrigin(bytes) == swap16(Native16(bytes[1], bytes[2]))

\* max_read = MEMORY_MAX - origin, a uint16_t
ImageMaxRead(bytes) == Trunc16(MEMORY_MAX - ImageOrigin(bytes))

\* the return value of the second fread: complete words read, at most max_read
ImageRead(bytes) ==
    LET avail == (Len(bytes) - 2) \div 2
    IN  IF avail < ImageMaxRead(bytes) THEN avail ELSE ImageMaxRead(bytes)

\* read_image_file: fread stores the words at memory + origin, the loop swaps each
read_image_file(m, bytes) ==
    LET origin == ImageOrigin(bytes)
        read == ImageRead(bytes)
        written == {origin + i : i \in 0 .. read - 1}
    IN  [a \in (DOMAIN m) \cup written |->
            IF a \in written
            THEN swap16(Native16(bytes[3 + 2 * (a - origin)], bytes[4 + 2 * (a - origin)]))
            ELSE m[a]]

\* -------------------------------------------------------- standard input
\* getchar() returns without blocking
CanGetchar(in) == in.buf # <<>> \/ in.fd # <<>> \/ closed

\* getchar(): the next byte of stdio's buffer, refilled from the descriptor by one
\* read() that takes every byte available; EOF at end of file
getchar(in) ==
    IF in.buf # <<>> THEN [c |-> Head(in.buf), in |-> [in EXCEPT !.buf = Tail(in.buf)]]
    ELSE IF in.fd # <<>> THEN [c |-> Head(in.fd), in |-> [fd |-> <<>>, buf |-> Tail(in.fd)]]
    ELSE [c |-> EOF, in |-> in]

\* check_key(): select() with a zero timeout finds the descriptor readable
check_key(in) == in.fd # <<>> \/ closed

\* (uint16_t)c for char c = getchar()
CharToU16(c) ==
    LET b == Trunc8(c)
    IN  IF charSigned /\ b >= 128 THEN Trunc16(b - 256) ELSE b

\* mem_read(addr): the word read, memory and standard input afterwards, and the
\* index used
mem_read(m, in, addr) ==
    LET a == Addr16(addr)
        key == a = MR_KBSR /\ check_key(in)
        g == getchar(in)
        m1 == IF a # MR_KBSR THEN m
              ELSE IF key THEN MemSet(MemSet(m, MR_KBSR, 32768), MR_KBDR, Trunc16(g.c))
              ELSE MemSet(m, MR_KBSR, 0)
    IN  [val |-> MemAt(m1, a), mem |-> m1, in |-> IF key THEN g.in ELSE in, idx |-> a]

\* update_flags setting the flag's bit without clearing the others
update_flags_or(rg, r) ==
    IF rg[r] = 0 THEN [rg EXCEPT ![R_COND] = BitOr(rg[R_COND], FL_ZRO)]
    ELSE IF Shr(rg[r], 15) # 0 THEN [rg EXCEPT ![R_COND] = BitOr(rg[R_COND], FL_NEG)]
    ELSE [rg EXCEPT ![R_COND] = FL_POS]

\* update_flags without the test of the leftmost bit
update_flags_nosign(rg, r) ==
    IF rg[r] = 0 THEN [rg EXCEPT ![R_COND] = FL_ZRO]
    ELSE [rg EXCEPT ![R_COND] = FL_POS]

\* update_flags(r) on the register file rg
update_flags(rg, r) ==
    IF rg[r] = 0 THEN [rg EXCEPT ![R_COND] = FL_ZRO]
    ELSE IF Shr(rg[r], 15) # 0 THEN [rg EXCEPT ![R_COND] = FL_NEG]
    ELSE [rg EXCEPT ![R_COND] = FL_POS]

\* ------------------------------------------------------- startup of main
\* argc < 2: the usage message and exit(2)
Usage ==
    /\ proc = "load" /\ Len(argv) = 0
    /\ proc' = "exit2"
    /\ last' = [last EXCEPT !.kind = "usage"]
    /\ acc' = {}
    /\ UNCHANGED <<stored, argv, argi, memory, reg, running, tty, stdin, closed, charSigned, steps>>

\* one round of the loading loop, read_image succeeding
LoadImage ==
    /\ proc = "load" /\ argi < Len(argv) /\ argv[argi + 1].ok
    /\ memory' = read_image_file(memory, argv[argi + 1].bytes)
    /\ argi' = argi + 1
    /\ last' = [last EXCEPT !.kind = "load"]
    /\ acc' = {ImageOrigin(argv[argi + 1].bytes) + i : i \in 0 .. ImageRead(argv[argi + 1].bytes) - 1}
    /\ UNCHANGED <<stored, argv, reg, running, proc, tty, stdin, closed, charSigned, steps>>

\* one round of the loading loop, read_image failing: exit(1)
LoadFail ==
    /\ proc = "load" /\ argi < Len(argv) /\ ~argv[argi + 1].ok
    /\ proc' = "exit1"
    /\ last' = [last EXCEPT !.kind = "loadfail"]
    /\ acc' = {}
    /\ UNCHANGED <<stored, argv, argi, memory, reg, running, tty, stdin, closed, charSigned, steps>>

\* Setup: the signal handler, raw mode, COND, PC, running = 1
Setup ==
    /\ proc = "load" /\ Len(argv) >= 1 /\ argi = Len(argv)
    /\ tty' = "raw"
    /\ reg' = [reg EXCEPT ![R_COND] = FL_ZRO, ![R_PC] = PC_START]
    /\ running' = 1
    /\ proc' = "loop"
    /\ last' = [last EXCEPT !.kind = "setup"]
    /\ acc' = {}
    /\ UNCHANGED <<stored, argv, argi, memory, stdin, closed, charSigned, steps>>

\* handle_interrupt: SIGINT while the handler is installed
handle_interrupt ==
    /\ proc = "loop"
    /\ tty' = "cooked"
    /\ proc' = "sigint"
    /\ last' = [last EXCEPT !.kind = "signal"]
    /\ acc' = {}
    /\ UNCHANGED <<stored, argv, argi, memory, reg, running, stdin, closed, charSigned, steps>>

\* ------------------------------------------------------------- run loop
\* while (running), within the bound on executed instructions
Running == proc = "loop" /\ running = 1 /\ steps < MaxSteps

\* FETCH: inst = mem_read(reg[R_PC]++)
Fetch == mem_read(memory, stdin, reg[R_PC])

inst == Fetch.val

op == Shr(inst, 12)

\* the fetch incrementing the PC without the wrap of uint16_t
regF_nowrap == [reg EXCEPT ![R_PC] = reg[R_PC] + 1]

\* reg[] after the post-increment of reg[R_PC]
regF == [reg EXCEPT ![R_PC] = Trunc16(reg[R_PC] + 1)]

\* the fields of the instruction word
DR(w) == BitAnd(Shr(w, 9), 7)

SR1(w) == BitAnd(Shr(w, 6), 7)

SR2(w) == BitAnd(w, 7)

imm5(w) == sign_extend(BitAnd(w, 31), 5)

offset6(w) == sign_extend(BitAnd(w, 63), 6)

pc_offset(w) == sign_extend(BitAnd(w, 511), 9)

imm11(w) == sign_extend(BitAnd(w, 2047), 11)

trap_opcode(w) == BitAnd(w, 255)

\* the record of an executed instruction: reg[] before it, the word fetched, and
\* the step before
Stepped ==
    [kind |-> "inst", reg |-> reg, inst |-> inst,
     was |-> [kind |-> last.kind, reg |-> last.reg, inst |-> last.inst]]

\* the end of a case that breaks out of the switch and goes round the loop
Break(rg, m, in, touched) ==
    /\ reg' = rg
    /\ memory' = m
    /\ stdin' = in
    /\ acc' = {Fetch.idx} \cup touched
    /\ last' = Stepped
    /\ steps' = steps + 1
    /\ UNCHANGED <<stored, argv, argi, running, proc, tty, closed, charSigned>>

\* the end of a store case: mem_write(addr, val) on the memory m, then break
StoreBreak(rg, m, in, touched, addr, val) ==
    /\ reg' = rg
    /\ memory' = mem_write(m, addr, val)
    /\ stdin' = in
    /\ acc' = {Fetch.idx} \cup touched \cup {Addr16(addr)}
    /\ last' = Stepped
    /\ steps' = steps + 1
    /\ stored' = MemSet(stored, Addr16(addr), val)
    /\ UNCHANGED <<argv, argi, running, proc, tty, closed, charSigned>>

\* abort(): the process dies of SIGABRT where it stands
Abort(rg) ==
    /\ reg' = rg
    /\ memory' = Fetch.mem
    /\ stdin' = Fetch.in
    /\ acc' = {Fetch.idx}
    /\ last' = Stepped
    /\ steps' = steps + 1
    /\ proc' = "abort"
    /\ UNCHANGED <<stored, argv, argi, running, tty, closed, charSigned>>

\* OP_ADD taking imm5 as it is in the word, without sign_extend
case_OP_ADD_unsigned ==
    /\ Running /\ op = OP_ADD
    /\ LET r0 == DR(inst)
           r1 == SR1(inst)
           imm_flag == BitAnd(Shr(inst, 5), 1)
           operand == IF imm_flag # 0 THEN BitAnd(inst, 31) ELSE regF[SR2(inst)]
       IN  Break(update_flags([regF EXCEPT ![r0] = Trunc16(regF[r1] + operand)], r0),
                 Fetch.mem, Fetch.in, {})

case_OP_ADD ==
    /\ Running /\ op = OP_ADD
    /\ LET r0 == DR(inst)
           r1 == SR1(inst)
           imm_flag == BitAnd(Shr(inst, 5), 1)
           operand == IF imm_flag # 0 THEN imm5(inst) ELSE regF[SR2(inst)]
       IN  Break(update_flags([regF EXCEPT ![r0] = Trunc16(regF[r1] + operand)], r0),
                 Fetch.mem, Fetch.in, {})

case_OP_AND ==
    /\ Running /\ op = OP_AND
    /\ LET r0 == DR(inst)
           r1 == SR1(inst)
           imm_flag == BitAnd(Shr(inst, 5), 1)
           operand == IF imm_flag # 0 THEN imm5(inst) ELSE regF[SR2(inst)]
       IN  Break(update_flags([regF EXCEPT ![r0] = BitAnd(regF[r1], operand)], r0),
                 Fetch.mem, Fetch.in, {})

\* OP_NOT with the logical ! in place of the bitwise ~
case_OP_NOT_logical ==
    /\ Running /\ op = OP_NOT
    /\ LET r0 == DR(inst)
           r1 == SR1(inst)
       IN  Break(update_flags([regF EXCEPT ![r0] = IF regF[r1] = 0 THEN 1 ELSE 0], r0),
                 Fetch.mem, Fetch.in, {})

case_OP_NOT ==
    /\ Running /\ op = OP_NOT
    /\ LET r0 == DR(inst)
           r1 == SR1(inst)
       IN  Break(update_flags([regF EXCEPT ![r0] = Trunc16(-regF[r1] - 1)], r0),
                 Fetch.mem, Fetch.in, {})

\* OP_BR comparing the mask with COND for equality in place of the bitwise &
case_OP_BR_equal ==
    /\ Running /\ op = OP_BR
    /\ LET cond_flag == DR(inst)
       IN  Break(IF cond_flag = regF[R_COND]
                 THEN [regF EXCEPT ![R_PC] = Trunc16(regF[R_PC] + pc_offset(inst))]
                 ELSE regF,
                 Fetch.mem, Fetch.in, {})

case_OP_BR ==
    /\ Running /\ op = OP_BR
    /\ LET cond_flag == DR(inst)
       IN  Break(IF BitAnd(cond_flag, regF[R_COND]) # 0
                 THEN [regF EXCEPT ![R_PC] = Trunc16(regF[R_PC] + pc_offset(inst))]
                 ELSE regF,
                 Fetch.mem, Fetch.in, {})

case_OP_JMP ==
    /\ Running /\ op = OP_JMP
    /\ Break([regF EXCEPT ![R_PC] = regF[SR1(inst)]], Fetch.mem, Fetch.in, {})

\* the immediate branch computes imm11 and assigns nothing
case_OP_JSR ==
    /\ Running /\ op = OP_JSR
    /\ LET linked == [regF EXCEPT ![R_R7] = regF[R_PC]]
           imm_flag == BitAnd(Shr(inst, 11), 1)
       IN  Break(IF imm_flag # 0 THEN linked
                 ELSE [linked EXCEPT ![R_PC] = linked[SR1(inst)]],
                 Fetch.mem, Fetch.in, {})

case_OP_LD ==
    /\ Running /\ op = OP_LD
    /\ LET r0 == DR(inst)
           ptr == Trunc16(regF[R_PC] + pc_offset(inst))
           rd == mem_read(Fetch.mem, Fetch.in, ptr)
       IN  Break(update_flags([regF EXCEPT ![r0] = rd.val], r0), rd.mem, rd.in, {rd.idx})

case_OP_LDI ==
    /\ Running /\ op = OP_LDI
    /\ LET r0 == DR(inst)
           p == mem_read(Fetch.mem, Fetch.in, regF[R_PC] + pc_offset(inst))
           rd == mem_read(p.mem, p.in, p.val)
       IN  Break(update_flags([regF EXCEPT ![r0] = rd.val], r0), rd.mem, rd.in,
                 {p.idx, rd.idx})

case_OP_LDR ==
    /\ Running /\ op = OP_LDR
    /\ LET r0 == DR(inst)
           r1 == SR1(inst)
           ptr == Trunc16(regF[r1] + offset6(inst))
           rd == mem_read(Fetch.mem, Fetch.in, ptr)
       IN  Break(update_flags([regF EXCEPT ![r0] = rd.val], r0), rd.mem, rd.in, {rd.idx})

\* the case ends with update_flags(r0)
case_OP_LEA ==
    /\ Running /\ op = OP_LEA
    /\ LET r0 == DR(inst)
       IN  Break(update_flags([regF EXCEPT ![r0] = Trunc16(regF[R_PC] + pc_offset(inst))], r0),
                 Fetch.mem, Fetch.in, {})

case_OP_ST ==
    /\ Running /\ op = OP_ST
    /\ LET r0 == DR(inst)
           addr == regF[R_PC] + pc_offset(inst)
       IN  StoreBreak(regF, Fetch.mem, Fetch.in, {}, addr, regF[r0])

\* OP_STI ending with update_flags(r0), as the loads do
case_OP_STI_flags ==
    /\ Running /\ op = OP_STI
    /\ LET r0 == DR(inst)
           p == mem_read(Fetch.mem, Fetch.in, regF[R_PC] + pc_offset(inst))
       IN  StoreBreak(update_flags(regF, r0), p.mem, p.in, {p.idx}, p.val, regF[r0])

case_OP_STI ==
    /\ Running /\ op = OP_STI
    /\ LET r0 == DR(inst)
           p == mem_read(Fetch.mem, Fetch.in, regF[R_PC] + pc_offset(inst))
       IN  StoreBreak(regF, p.mem, p.in, {p.idx}, p.val, regF[r0])

case_OP_STR ==
    /\ Running /\ op = OP_STR
    /\ LET r0 == DR(inst)
           r1 == SR1(inst)
           ptr == Trunc16(regF[r1] + offset6(inst))
       IN  StoreBreak(regF, Fetch.mem, Fetch.in, {}, ptr, regF[r0])

\* OP_RES falling out of the switch without abort()
case_OP_RES_nop ==
    /\ Running /\ op = OP_RES
    /\ Break(regF, Fetch.mem, Fetch.in, {})

\* case OP_RES, case OP_RTI and default: abort()
case_OP_RES ==
    /\ Running /\ op = OP_RES
    /\ Abort(regF)

case_OP_RTI ==
    /\ Running /\ op = OP_RTI
    /\ Abort(regF)

\* --------------------------------------------------------- trap services
\* case OP_TRAP begins with reg[R_R7] = reg[R_PC]
regT == [regF EXCEPT ![R_R7] = regF[R_PC]]

\* a TRAP instruction with this vector is next
Trap(vector) == Running /\ op = OP_TRAP /\ trap_opcode(inst) = vector

case_TRAP_GETC ==
    /\ Trap(TRAP_GETC)
    /\ CanGetchar(Fetch.in)
    /\ LET g == getchar(Fetch.in)
       IN  Break(update_flags([regT EXCEPT ![R_R0] = CharToU16(g.c)], R_R0),
                 Fetch.mem, g.in, {})

case_TRAP_OUT ==
    /\ Trap(TRAP_OUT)
    /\ Break(regT, Fetch.mem, Fetch.in, {})

case_TRAP_IN ==
    /\ Trap(TRAP_IN)
    /\ CanGetchar(Fetch.in)
    /\ LET g == getchar(Fetch.in)
       IN  Break(update_flags([regT EXCEPT ![R_R0] = CharToU16(g.c)], R_R0),
                 Fetch.mem, g.in, {})

RECURSIVE StrReads(_, _)
\* the indices that while (*c) ++c reads from c = memory + i, up to the first zero
\* word or the first index beyond the array
StrReads(m, i) ==
    IF i >= MEMORY_MAX THEN {i}
    ELSE IF MemAt(m, i) = 0 THEN {i}
    ELSE {i} \cup StrReads(m, i + 1)

\* the traversal of PUTS and PUTSP.  c is a pointer and ++c does not wrap: with no
\* zero word up to memory[0xFFFF] it reads beyond the array, which is undefined:
\* the stray reads find a zero word after some words, or the process dies
PutString ==
    LET rd == StrReads(Fetch.mem, regT[R_R0])
    IN  IF MEMORY_MAX \notin rd
        THEN Break(regT, Fetch.mem, Fetch.in, rd)
        ELSE \/ \E k \in 1 .. MaxOOB :
                  Break(regT, Fetch.mem, Fetch.in, rd \cup (MEMORY_MAX .. MEMORY_MAX + k - 1))
             \/ /\ reg' = regT
                /\ memory' = Fetch.mem
                /\ stdin' = Fetch.in
                /\ acc' = {Fetch.idx} \cup rd
                /\ last' = Stepped
                /\ steps' = steps + 1
                /\ proc' = "crash"
                /\ UNCHANGED <<stored, argv, argi, running, tty, closed, charSigned>>

case_TRAP_PUTS ==
    /\ Trap(TRAP_PUTS)
    /\ PutString

case_TRAP_PUTSP ==
    /\ Trap(TRAP_PUTSP)
    /\ PutString

\* TRAP_HALT taking the PC from its entry in the trap vector table
case_TRAP_HALT_vectored ==
    /\ Trap(TRAP_HALT)
    /\ reg' = [regT EXCEPT ![R_PC] = MemAt(Fetch.mem, trap_opcode(inst))]
    /\ memory' = Fetch.mem
    /\ stdin' = Fetch.in
    /\ acc' = {Fetch.idx, trap_opcode(inst)}
    /\ last' = Stepped
    /\ steps' = steps + 1
    /\ running' = 0
    /\ tty' = "cooked"
    /\ proc' = "exit0"
    /\ UNCHANGED <<stored, argv, argi, closed, charSigned>>

\* running = 0 ends the loop: Shutdown restores the terminal and main returns 0
case_TRAP_HALT ==
    /\ Trap(TRAP_HALT)
    /\ reg' = regT
    /\ memory' = Fetch.mem
    /\ stdin' = Fetch.in
    /\ acc' = {Fetch.idx}
    /\ last' = Stepped
    /\ steps' = steps + 1
    /\ running' = 0
    /\ tty' = "cooked"
    /\ proc' = "exit0"
    /\ UNCHANGED <<stored, argv, argi, closed, charSigned>>

\* default of the inner switch: abort()
case_TRAP_default ==
    /\ Running /\ op = OP_TRAP
    /\ trap_opcode(inst) \notin {TRAP_GETC, TRAP_OUT, TRAP_PUTS, TRAP_IN, TRAP_PUTSP, TRAP_HALT}
    /\ Abort(regT)

\* ------------------------------------------------------------ the inputs
\* bytes that standard input may deliver
InBytes == {0, \h41, \hE9}

\* the contents of standard input
Inputs == UNION {[1 .. n -> InBytes] : n \in 0 .. MaxInput}

\* ADD R1,R1,#-1; NOT R2,R1; ADD R2,R2,#1; AND R3,R1,R2; ADD R3,R1,R2; HALT
P_arith == File(\h3000, <<\h127F, \h947F, \h14A1, \h5642, \h1642, \hF025>>)

\* LEA R1,#5; ST R1,#4; STR R1,R1,#1; STI R3,#3; LD R2,#1; LDR R3,R1,#1
P_mem == File(\h3000, <<\hE205, \h3204, \h7241, \hB603, \h2401, \h6641>>)

\* LDI R2,#4; HALT; 0x3005: 0x3010; 0x3010: 0xBEEF
P_ldi == File(\h3000, <<\hA404, \hF025, 0, 0, 0, \h3010, 0, 0, 0, 0, 0, 0, 0, 0, 0, 0, \hBEEF>>)

\* LEA R0,#2; PUTS; HALT; "Hi"
P_puts == File(\h3000, <<\hE002, \hF022, \hF025, \h0048, \h0069, 0>>)

\* JSR #1; HALT; JMP R7
P_jsr == File(\h3000, <<\h4801, \hF025, \hC1C0>>)

\* LEA R3,#2; JSRR R3; HALT; JMP R7
P_jsrr == File(\h3000, <<\hE602, \h40C0, \hF025, \hC1C0>>)

\* BRz #1; RES; BRnp #1; BR(mask 0) #1; BRnzp #-4
P_br == File(\h3000, <<\h0401, \hD000, \h0A01, \h0001, \h0FFC>>)

\* GETC; OUT; IN; ADD R1,R0,#0; HALT
P_io == File(\h3000, <<\hF020, \hF021, \hF023, \h1220, \hF025>>)

\* ADD R0,R0,#-1; STR R0,R0,#0; PUTS; PUTSP; JMP R0: a string at 0xFFFF with no
\* zero word after it, then the word at 0xFFFF as an instruction
P_top == File(\h3000, <<\h103F, \h7000, \hF022, \hF024, \hC000>>)

\* ADD R0,R0,#-1; LD R1,#2; STR R1,R0,#0; JMP R0; 0x3004: LD R1,#1, which is
\* stored at 0xFFFF and executed there
P_wrap == File(\h3000, <<\h103F, \h2202, \h7200, \hC000, \h2201>>)

\* LD R1,#4; LD R2,#4; STR R2,R1,#0; JMP R1; HALT; 0xFDFF; STI R0,#0, which is
\* stored at 0xFDFF and reads its pointer at 0xFE00
P_kbd == File(\h3000, <<\h2204, \h2404, \h7440, \hC040, \hF025, \hFDFF, \hB000>>)

\* LDI R0,#2; LDI R1,#2; HALT; 0xFE00; 0xFE02
P_kbdr == File(\h3000, <<\hA002, \hA202, \hF025, \hFE00, \hFE02>>)

\* HALT at 0x3000
P_halt == File(\h3000, <<\hF025>>)

\* RTI at 0x3000
P_rti == File(\h3000, <<\h8000>>)

\* TRAP x26 at 0x3000
P_trap == File(\h3000, <<\hF026>>)

\* LEA R2,#-1; ADD R1,R1,#15; STR R2,R1,#22; HALT: an entry for x25 in the trap
\* vector table at 0x0025
P_vec == File(\h3000, <<\hE5FF, \h126F, \h7456, \hF025>>)

\* ADD R1,R1,#-16; BRzp #1; BRn #1; RES; ADD R2,R2,#15; BRnz #1; BRp #1
P_imm == File(\h3000, <<\h1270, \h0601, \h0801, \hD000, \h14AF, \h0C01, \h0201>>)

\* GETC; NOT R1,R0; NOT R1,R1; HALT
P_not == File(\h3000, <<\hF020, \h923F, \h927F, \hF025>>)

\* LEA R7,#5; JSRR R7
P_jsrr7 == File(\h3000, <<\hEE05, \h41C0>>)

\* LEA R0,#0; LD R1,#3; STR R0,R1,#0; LDR R2,R1,#-2; LDR R3,R1,#0; 0xFE02: a
\* store to 0xFE02, a poll of 0xFE00, a load from 0xFE02
P_kbst == File(\h3000, <<\hE000, \h2203, \h7040, \h647E, \h6640, \hFE02>>)

\* an image of origin 0
D_zero == File(0, <<\hF025, \hFD70>>)

\* two words for 0xFFFF, of which the array has room for one
D_top == File(\hFFFF, <<\h2201, \h0042>>)

Images == {P_arith, P_mem, P_ldi, P_puts, P_jsr, P_jsrr, P_br, P_io, P_top, P_wrap,
           P_kbd, P_kbdr, P_halt, P_rti, P_trap, P_vec, P_imm, P_not, P_jsrr7, P_kbst,
           D_zero, D_top, Missing}

\* the command lines
Argvs == UNION {[1 .. n -> Images] : n \in 0 .. MaxImages}

\* ----------------------------------------------------------- the machine
Init ==
    /\ argv \in Argvs
    /\ argi = 0
    /\ memory = <<>>
    /\ reg = [r \in 0 .. R_COUNT - 1 |-> 0]
    /\ running = 0
    /\ proc = "load"
    /\ tty = "cooked"
    /\ stdin \in {[fd |-> s, buf |-> <<>>] : s \in Inputs}
    /\ closed \in BOOLEAN
    /\ charSigned \in BOOLEAN
    /\ steps = 0
    /\ last = [kind |-> "none", reg |-> reg, inst |-> 0,
               was |-> [kind |-> "none", reg |-> reg, inst |-> 0]]
    /\ acc = {}
    /\ stored = <<>>

Next ==
    \/ Usage
    \/ LoadImage
    \/ LoadFail
    \/ Setup
    \/ handle_interrupt
    \/ case_OP_ADD
    \/ case_OP_AND
    \/ case_OP_NOT
    \/ case_OP_BR
    \/ case_OP_JMP
    \/ case_OP_JSR
    \/ case_OP_LD
    \/ case_OP_LDI
    \/ case_OP_LDR
    \/ case_OP_LEA
    \/ case_OP_ST
    \/ case_OP_STI
    \/ case_OP_STR
    \/ case_OP_RES
    \/ case_OP_RTI
    \/ case_TRAP_GETC
    \/ case_TRAP_OUT
    \/ case_TRAP_PUTS
    \/ case_TRAP_IN
    \/ case_TRAP_PUTSP
    \/ case_TRAP_HALT
    \/ case_TRAP_default

Spec == Init /\ [][Next]_vars

\* every value is of its C type
TypeOK ==
    /\ \A r \in 0 .. R_COUNT - 1 : reg[r] \in 0 .. 65535
    /\ \A a \in DOMAIN memory : a \in 0 .. MEMORY_MAX - 1 /\ memory[a] \in 0 .. 65535
    /\ running \in {0, 1}
    /\ proc \in {"load", "loop", "exit0", "exit1", "exit2", "abort", "sigint", "crash"}
    /\ tty \in {"cooked", "raw"}
    /\ steps \in 0 .. MaxSteps

\* ------------------------------------------------- vocabulary of the claims
\* the step just taken executed an instruction
Executed == last.kind = "inst"

\* bits lo .. lo+n-1 of the word w
Bits(w, lo, n) == (w \div (2 ^ lo)) % (2 ^ n)

\* the n-bit two's-complement field x as a 16-bit word
SExt(x, n) == IF x >= 2 ^ (n - 1) THEN 65536 - (2 ^ n) + x ELSE x

\* the flag that stands for the sign of the word v
FlagOf(v) == IF v >= 32768 THEN 4 ELSE IF v = 0 THEN 2 ELSE 1

\* the instruction just executed: its word, opcode and the address a it was fetched from
LInst == last.inst

LOp == Bits(last.inst, 12, 4)

LAddr == last.reg[R_PC]

\* the address after the instruction just executed, (a + 1) mod 2^16
LNext == (LAddr + 1) % 65536

\* the trap vector of the instruction just executed
LVector == Bits(last.inst, 0, 8)

\* execution has begun: COND and PC are initialised
Started == proc \in {"loop", "exit0", "abort", "sigint", "crash"}

\* ---------------------------------------------------------------- claims
\* C1: in every state from the start of execution on, COND is exactly one of
\* 1 (P), 2 (Z), 4 (N).
C1_CondOneHot == Started => reg[R_COND] \in {1, 2, 4}

\* an instruction has left COND = N
C1_Witness == Started /\ Executed /\ reg[R_COND] = 4 /\ last.reg[R_COND] = 2

\* C2: LEA leaves COND as it was and sets R[DR] to (a + 1 + sext(PCoffset9)) mod 2^16.
C2_LeaKeepsCond ==
    (Executed /\ LOp = OP_LEA) =>
        /\ reg[R_COND] = last.reg[R_COND]
        /\ reg[Bits(LInst, 9, 3)] = (LNext + SExt(Bits(LInst, 0, 9), 9)) % 65536

\* C3: JSR with bit 11 set, fetched from a, sets R7 to a + 1 and PC to
\* (a + 1 + sext(PCoffset11)) mod 2^16; JMP R7 sets PC to what R7 holds.
C3_JsrCallsAndReturns ==
    /\ (Executed /\ LOp = OP_JSR /\ Bits(LInst, 11, 1) = 1) =>
           /\ reg[R_R7] = LNext
           /\ reg[R_PC] = (LNext + SExt(Bits(LInst, 0, 11), 11)) % 65536
    /\ (Executed /\ LOp = OP_JMP /\ Bits(LInst, 6, 3) = 7) => reg[R_PC] = last.reg[R_R7]

\* C4: after ADD, AND, NOT, LD, LDI, LDR (destination DR) and after the GETC and IN
\* traps (destination R0), COND is N iff the new R[DR] >= 0x8000, Z iff it is 0,
\* and P otherwise.
C4_FlagsFollowResult ==
    /\ (Executed /\ LOp \in {OP_ADD, OP_AND, OP_NOT, OP_LD, OP_LDI, OP_LDR}) =>
           reg[R_COND] = FlagOf(reg[Bits(LInst, 9, 3)])
    /\ (Executed /\ LOp = OP_TRAP /\ LVector \in {TRAP_GETC, TRAP_IN}) =>
           reg[R_COND] = FlagOf(reg[R_R0])

\* a load has fetched a negative word into DR and COND went from Z to N
C4_Witness ==
    /\ Executed /\ LOp = OP_LDI
    /\ reg[Bits(LInst, 9, 3)] >= 32768
    /\ last.reg[R_COND] = 2 /\ reg[R_COND] = 4

\* C5: ST, STI, STR, BR, JMP and JSR/JSRR leave COND unchanged, also when the
\* pointer read of STI polls the keyboard at 0xFE00.
C5_StoresAndJumpsKeepCond ==
    (Executed /\ LOp \in {OP_ST, OP_STI, OP_STR, OP_BR, OP_JMP, OP_JSR}) =>
        reg[R_COND] = last.reg[R_COND]

\* STI has read its pointer at 0xFE00 and stored a zero register while COND was N
C5_Witness ==
    /\ Executed /\ LOp = OP_STI
    /\ MR_KBSR \in acc
    /\ last.reg[Bits(LInst, 9, 3)] = 0
    /\ reg[R_COND] = 4

\* C6: the machine leaves Running only by the HALT trap or by a fatal fault (RTI,
\* RES, an unknown trap vector); no other instruction or trap ends execution, and
\* once it has left Running nothing is fetched and no register or memory word
\* changes.  (The interrupt signal is the host's doing, not an instruction's.)
C6_OnlyHaltOrFaultEnds ==
    [][/\ (proc = "loop" /\ proc' # "loop") =>
              \/ proc' = "sigint"
              \/ /\ proc' = "exit0"
                 /\ Bits(last'.inst, 12, 4) = OP_TRAP /\ Bits(last'.inst, 0, 8) = TRAP_HALT
              \/ /\ proc' = "abort"
                 /\ \/ Bits(last'.inst, 12, 4) \in {OP_RTI, OP_RES}
                    \/ /\ Bits(last'.inst, 12, 4) = OP_TRAP
                       /\ Bits(last'.inst, 0, 8) \notin 32 .. 37
       /\ proc \notin {"load", "loop"} => UNCHANGED <<reg, memory, steps, proc>>
      ]_vars

\* C7: executing RTI, RES or a TRAP whose vector is not 0x20..0x25 ends the session
\* with a fatal fault; nothing is executed after it.
C7_ReservedAndUnknownAbort ==
    /\ (Executed /\ (LOp \in {OP_RTI, OP_RES} \/ (LOp = OP_TRAP /\ LVector \notin 32 .. 37)))
           => proc = "abort"
    /\ proc = "abort" => ~ENABLED Next

\* RES was executed after other instructions and the process has aborted
C7_Witness == Executed /\ LOp = OP_RES /\ steps > 1 /\ proc = "abort"

\* C8: every memory access of an instruction or trap service uses an index in
\* [0, 2^16).
C8_AccessInRange == \A i \in acc : i \in 0 .. 65535

\* C9: loading an image of origin O and complete words w_0 .. w_(n-1) leaves
\* memory[O + i] = w_i for every i < min(n, 0x10000 - O), writes nothing at or
\* beyond 0x10000 and leaves every other word unchanged.
C9_LoaderPlacesWords ==
    [][argi' = argi + 1 =>
          LET bytes == argv[argi'].bytes
              O == 256 * bytes[1] + bytes[2]
              n == (Len(bytes) - 2) \div 2
              w(i) == 256 * bytes[3 + 2 * i] + bytes[4 + 2 * i]
              k == IF n < 65536 - O THEN n ELSE 65536 - O
          IN  /\ \A i \in 0 .. k - 1 : MemAt(memory', O + i) = w(i)
              /\ \A a \in DOMAIN memory' : a < 65536
              /\ \A a \in (DOMAIN memory \cup DOMAIN memory') \ (O .. O + k - 1) :
                     MemAt(memory', a) = MemAt(memory, a)
      ]_vars

\* C10: a TRAP with a known vector fetched from a leaves R7 = PC = (a + 1) mod 2^16;
\* the service reads no memory but its own instruction word and, for PUTS and
\* PUTSP, the string from R0 on, so the vector table is not consulted; a machine
\* whose first instruction, at 0x3000, is 0xF025 halts with PC = 0x3001.
C10_TrapLinksAndReturns ==
    /\ (Executed /\ LOp = OP_TRAP /\ LVector \in 32 .. 37) =>
           /\ reg[R_R7] = LNext
           /\ reg[R_PC] = LNext
           /\ \A i \in acc : \/ i = LAddr
                             \/ LVector \in {TRAP_PUTS, TRAP_PUTSP} /\ i >= last.reg[R_R0]
    /\ (Executed /\ steps = 1 /\ LInst = 61477) =>
           proc = "exit0" /\ reg[R_PC] = 12289 /\ LAddr = 12288

\* HALT was executed while memory[0x25], its entry in the vector table, held an
\* address other than the one execution stopped at
C10_Witness ==
    /\ Executed /\ LOp = OP_TRAP /\ LVector = TRAP_HALT
    /\ proc = "exit0"
    /\ MemAt(memory, 37) # 0 /\ MemAt(memory, 37) # reg[R_PC]

\* the bytes of standard input that have not been consumed, oldest first
Pending == stdin.buf \o stdin.fd

\* this step executes an instruction
Steps == steps' = steps + 1

\* C11: when the GETC trap or the IN trap reads an input byte b (0..255), R0 is b
\* zero-extended, so R0 <= 0x00FF, and COND is P or Z, never N.
C11_InputZeroExtended ==
    [][(/\ Steps
        /\ Bits(last'.inst, 12, 4) = OP_TRAP
        /\ Bits(last'.inst, 0, 8) \in {TRAP_GETC, TRAP_IN}
        /\ Pending # <<>>)
       => /\ reg'[R_R0] = Head(Pending)
          /\ reg'[R_R0] <= 255
          /\ reg'[R_COND] = (IF Head(Pending) = 0 THEN FL_ZRO ELSE FL_POS)]_vars

\* the address (a + 1 + sext(PCoffset9)) mod 2^16 of the instruction w fetched from a
PcRel(a, w) == (a + 1 + SExt(Bits(w, 0, 9), 9)) % 65536

\* the address that the load l (a record as in last) reads its result from in the
\* memory m
LoadAddr(l, m) ==
    LET w == l.inst
        o == Bits(w, 12, 4)
    IN  IF o = OP_LD THEN PcRel(l.reg[R_PC], w)
        ELSE IF o = OP_LDR THEN (l.reg[Bits(w, 6, 3)] + SExt(Bits(w, 0, 6), 6)) % 65536
        ELSE MemAt(m, PcRel(l.reg[R_PC], w))

\* what a step's one read of 0xFE00 does when it returns val: without a pending
\* byte it clears the status word and consumes nothing; with one it consumes that
\* byte into the data word and sets the status word
KbsrRead(val) ==
    IF Pending = <<>>
    THEN /\ val = 0
         /\ MemAt(memory', MR_KBSR) = 0
         /\ MemAt(memory', MR_KBDR) = MemAt(memory, MR_KBDR)
         /\ stdin' = stdin
    ELSE /\ val = 32768
         /\ MemAt(memory', MR_KBSR) = 32768
         /\ MemAt(memory', MR_KBDR) = Head(Pending)
         /\ Pending' = Tail(Pending)

\* C12: a read of 0xFE00, by a fetch or a load, returns 0 and clears memory[0xFE00]
\* when no input byte is pending, consuming nothing and leaving memory[0xFE02]; with
\* a byte pending it consumes that byte into memory[0xFE02], sets memory[0xFE00] to
\* 0x8000 and returns 0x8000.  A read of another address, 0xFE02 included, returns
\* the stored word, changes no memory and consumes no input.
C12_KeyboardStatusRead ==
    [][/\ (/\ Steps
           /\ last'.reg[R_PC] = MR_KBSR)
          => KbsrRead(last'.inst)
       /\ (/\ Steps
           /\ last'.reg[R_PC] # MR_KBSR
           /\ Bits(last'.inst, 12, 4) \in {OP_LD, OP_LDR, OP_LDI}
           /\ Bits(last'.inst, 12, 4) = OP_LDI => PcRel(last'.reg[R_PC], last'.inst) # MR_KBSR)
          => IF LoadAddr(last', memory) = MR_KBSR
             THEN KbsrRead(reg'[Bits(last'.inst, 9, 3)])
             ELSE /\ reg'[Bits(last'.inst, 9, 3)] = MemAt(memory, LoadAddr(last', memory))
                  /\ memory' = memory
                  /\ stdin' = stdin]_vars

\* C13: on every path by which the process ends after raw mode was enabled (HALT,
\* the interrupt signal, a fatal fault of RTI, RES or an unknown trap vector), the
\* original terminal settings are in force when the process has exited.
C13_TerminalRestored == proc \in {"exit0", "sigint", "abort"} => tty = "cooked"

\* the BR just executed finds one of its condition bits in COND
LTaken == BitAnd(Bits(LInst, 9, 3), last.reg[R_COND]) # 0

\* C14: a fetch from a leaves PC = (a + 1) mod 2^16 for the instruction (also at
\* a = 0xFFFF): an instruction that does not redirect ends with that PC and a link
\* is that address; BR taken, LD, ST, LDI, STI and LEA use the address
\* (a + 1 + sext(PCoffset9)) mod 2^16; LDI R2,#4 at 0x3000 with memory[0x3005] =
\* 0x3010 and memory[0x3010] = 0xBEEF leaves R2 = 0xBEEF and COND = N.
C14_PcRelativeToNext ==
    Executed =>
        /\ LOp \notin {OP_BR, OP_JMP, OP_JSR} => reg[R_PC] = LNext
        /\ LOp \in {OP_JSR, OP_TRAP} => reg[R_R7] = LNext
        /\ LOp = OP_BR => reg[R_PC] = (IF LTaken THEN PcRel(LAddr, LInst) ELSE LNext)
        /\ LOp \in {OP_LD, OP_ST, OP_LDI, OP_STI} => PcRel(LAddr, LInst) \in acc
        /\ LOp = OP_LD => reg[Bits(LInst, 9, 3)] = MemAt(memory, PcRel(LAddr, LInst))
        /\ LOp = OP_ST => MemAt(memory, PcRel(LAddr, LInst)) = last.reg[Bits(LInst, 9, 3)]
        /\ LOp = OP_LDI =>
               reg[Bits(LInst, 9, 3)] = MemAt(memory, MemAt(memory, PcRel(LAddr, LInst)))
        /\ LOp = OP_STI =>
               MemAt(memory, MemAt(memory, PcRel(LAddr, LInst))) = last.reg[Bits(LInst, 9, 3)]
        /\ LOp = OP_LEA => reg[Bits(LInst, 9, 3)] = PcRel(LAddr, LInst)
        /\ (/\ LInst = \hA404 /\ LAddr = \h3000
            /\ MemAt(memory, \h3005) = \h3010 /\ MemAt(memory, \h3010) = \hBEEF)
           => reg[2] = \hBEEF /\ reg[R_COND] = FL_NEG

\* LD fetched from 0xFFFF has read the word at (0xFFFF + 1 + 1) mod 2^16 = 1 and
\* left PC = 0
C14_Witness ==
    /\ Executed /\ LOp = OP_LD
    /\ LAddr = 65535
    /\ reg[R_PC] = 0
    /\ PcRel(LAddr, LInst) = 1
    /\ 1 \in acc

\* the operand of the ADD or AND just executed: sext(imm5) or R[SR2]
LOperand ==
    IF Bits(LInst, 5, 1) = 1 THEN SExt(Bits(LInst, 0, 5), 5) ELSE last.reg[Bits(LInst, 0, 3)]

\* C15: ADD writes R[DR] = (R[SR1] + operand) mod 2^16, the operand being R[SR2] or
\* sext(imm5), with sext(0x1F,5) = 0xFFFF, sext(0x10,5) = 0xFFF0, sext(0x0F,5) =
\* 0x000F; so 0xFFFF + 1 gives 0 with COND = Z, and ADD x,#0 gives x with the
\* flags of x.
C15_AddWraps ==
    /\ sign_extend(\h1F, 5) = \hFFFF
    /\ sign_extend(\h10, 5) = \hFFF0
    /\ sign_extend(\h0F, 5) = \h000F
    /\ (Executed /\ LOp = OP_ADD) =>
           /\ reg[Bits(LInst, 9, 3)] = (last.reg[Bits(LInst, 6, 3)] + LOperand) % 65536
           /\ (last.reg[Bits(LInst, 6, 3)] = \hFFFF /\ LOperand = 1) =>
                  reg[Bits(LInst, 9, 3)] = 0 /\ reg[R_COND] = FL_ZRO
           /\ (Bits(LInst, 5, 1) = 1 /\ Bits(LInst, 0, 5) = \h10) =>
                  reg[Bits(LInst, 9, 3)] = (last.reg[Bits(LInst, 6, 3)] + \hFFF0) % 65536
           /\ (Bits(LInst, 5, 1) = 1 /\ Bits(LInst, 0, 5) = 0) =>
                  /\ reg[Bits(LInst, 9, 3)] = last.reg[Bits(LInst, 6, 3)]
                  /\ reg[R_COND] = FlagOf(last.reg[Bits(LInst, 6, 3)])

\* ADD has added a register holding 1 to 0xFFFF: the sum wrapped to 0 and COND is Z
C15_Witness ==
    /\ Executed /\ LOp = OP_ADD
    /\ Bits(LInst, 5, 1) = 0
    /\ last.reg[Bits(LInst, 6, 3)] = \hFFFF /\ LOperand = 1
    /\ reg[Bits(LInst, 9, 3)] = 0
    /\ reg[R_COND] = FL_ZRO

\* the last two steps are NOT Rd,Rs and then NOT Rd,Rd
NotTwice ==
    /\ Executed /\ LOp = OP_NOT
    /\ last.was.kind = "inst" /\ Bits(last.was.inst, 12, 4) = OP_NOT
    /\ Bits(LInst, 6, 3) = Bits(LInst, 9, 3)
    /\ Bits(last.was.inst, 9, 3) = Bits(LInst, 9, 3)

\* C16: after NOT Rd,Rs and then NOT Rd,Rd, Rd holds the value x that Rs held, and
\* COND is the flag of x (N if x >= 0x8000, Z if x = 0, else P).
C16_NotTwiceRestores ==
    NotTwice =>
        /\ reg[Bits(LInst, 9, 3)] = last.was.reg[Bits(last.was.inst, 6, 3)]
        /\ reg[R_COND] = FlagOf(last.was.reg[Bits(last.was.inst, 6, 3)])

\* NOT was executed twice on a negative x from another register and COND is N
C16_Witness ==
    /\ NotTwice
    /\ Bits(last.was.inst, 6, 3) # Bits(LInst, 9, 3)
    /\ last.was.reg[Bits(last.was.inst, 6, 3)] >= 32768
    /\ reg[R_COND] = FL_NEG

\* the condition mask of the BR just executed
LMask == Bits(LInst, 9, 3)

\* the mask of the BR just executed and the COND it found have a bit in common
MaskMeetsCond == \E k \in 0 .. 2 : Bits(LMask, k, 1) = 1 /\ Bits(last.reg[R_COND], k, 1) = 1

\* C17: a BR with mask 0 never transfers control (PC after it is a + 1); a BR with
\* mask 7 always transfers to (a + 1 + sext(PCoffset9)) mod 2^16; with any other
\* mask the branch is taken iff mask AND COND is non-zero.
C17_BranchByMask ==
    (Executed /\ LOp = OP_BR) =>
        /\ LMask = 0 => reg[R_PC] = LNext
        /\ LMask = 7 => reg[R_PC] = PcRel(LAddr, LInst)
        /\ LMask \notin {0, 7} =>
               reg[R_PC] = (IF MaskMeetsCond THEN PcRel(LAddr, LInst) ELSE LNext)

\* BRzp with a non-zero offset was executed with COND = N and fell through
C17_Witness ==
    /\ Executed /\ LOp = OP_BR
    /\ LMask = 3
    /\ last.reg[R_COND] = FL_NEG
    /\ PcRel(LAddr, LInst) # LNext
    /\ reg[R_PC] = LNext

\* C18: JSR with bit 11 clear (JSRR), fetched from a, sets R7 to (a + 1) mod 2^16
\* and PC to the value BaseR held immediately before the instruction, for every
\* BaseR in 0..7, BaseR = 7 included.
C18_JsrrJumpsToBase ==
    (Executed /\ LOp = OP_JSR /\ Bits(LInst, 11, 1) = 0) =>
        /\ reg[R_R7] = LNext
        /\ reg[R_PC] = last.reg[Bits(LInst, 6, 3)]

\* the addresses whose words the store executed in this step may change: the
\* addressed word, and the keyboard words when STI reads its pointer at 0xFE00
StoreMayChange ==
    LET w == last'.inst
        o == Bits(w, 12, 4)
        p == PcRel(last'.reg[R_PC], w)
    IN  IF o = OP_ST THEN {p}
        ELSE IF o = OP_STR THEN {(last'.reg[Bits(w, 6, 3)] + SExt(Bits(w, 0, 6), 6)) % 65536}
        ELSE IF p = MR_KBSR THEN {MemAt(memory', MR_KBSR), MR_KBSR, MR_KBDR}
        ELSE {MemAt(memory, p)}

\* this step changes no word of memory outside the set S
OnlyChanges(S) ==
    \A a \in ((DOMAIN memory) \cup (DOMAIN memory')) \ S : MemAt(memory', a) = MemAt(memory, a)

\* an instruction other than a store changes only 0xFE00 and 0xFE02; a store
\* changes only what StoreMayChange allows
MemoryFrame ==
    IF Bits(last'.inst, 12, 4) \in {OP_ST, OP_STI, OP_STR}
    THEN OnlyChanges(StoreMayChange)
    ELSE OnlyChanges({MR_KBSR, MR_KBDR})

\* after this step, every address outside X that a store has written holds the
\* word of the latest store to it, which is what a read of it returns
ReadsBack(X) == \A A \in (DOMAIN stored') \ X : MemAt(memory', A) = stored'[A]

\* C19 as stated: memory changes only through a store or the keyboard hook, and a
\* word stored at A is returned by any later read of A, for every A other than
\* 0xFE00, until the next store to A.
C19_StoredWordsPersist == [][Steps => MemoryFrame /\ ReadsBack({MR_KBSR})]_vars

\* C19, amended: memory changes only through a store or the keyboard hook, and a
\* word stored at A is returned by any later read of A, for every A other than
\* 0xFE00 and 0xFE02, until the next store to A.
C19_StoredWordsPersistOffKeyboard ==
    [][Steps => MemoryFrame /\ ReadsBack({MR_KBSR, MR_KBDR})]_vars

\* LDR has read back a non-zero word that an earlier store wrote
C19_Witness ==
    /\ Executed /\ LOp = OP_LDR
    /\ LoadAddr(last, memory) \in DOMAIN stored
    /\ stored[LoadAddr(last, memory)] # 0
    /\ reg[Bits(LInst, 9, 3)] = stored[LoadAddr(last, memory)]
    /\ last.reg[Bits(LInst, 9, 3)] # reg[Bits(LInst, 9, 3)]

====
